---- MODULE Spec2Model ----
(***************************************************************************)
(* A model of RwsCheck (src/RwsCheck.py): the validators of a submission   *)
(* of related website sets.  Strings are TLA+ strings, taken apart with    *)
(* Len and SubSeq; a Python list is a sequence; a Python dict is a         *)
(* sequence of <<key, value>> pairs in insertion order; an optional value  *)
(* (a key that dict.get may not find) is None or Some(v).  A diagnostic    *)
(* string is a tuple of the format's name and the values formatted into    *)
(* it.                                                                     *)
(***************************************************************************)
EXTENDS Integers, Sequences, FiniteSets, TLC

VARIABLES
    rws_sites,      \* self.rws_sites['sets']: the raw records of the submission
    check_sets,     \* the dict load_sets returned, passed to every validator
    error_list,     \* self.error_list
    warning_texts,  \* self.warning_texts
    icanns,         \* self.icanns: the recognized country codes
    remote,         \* the outcome of fetching each URL (the remote sites)
    fetched,        \* the URLs fetched so far, in order
    wk_args,        \* the arguments of a call of check_well_known_list
    wk_result,      \* what that call returned
    subtracted_sets, \* the dict passed to find_invalid_removal
    done            \* the operations that have run

vars == <<rws_sites, check_sets, error_list, warning_texts, icanns, remote,
          fetched, wk_args, wk_result, subtracted_sets, done>>

-----------------------------------------------------------------------------
(* Bounds *)

\* The longest submission: the number of raw records in rws_sites['sets'].
MaxRecords == 2

\* The longest list handed to check_well_known_list.
MaxList == 2

-----------------------------------------------------------------------------
(* Python values *)

None == <<>>
Some(v) == <<v>>

\* dict.get(key, default) on an optional field.
GetOr(opt, default) == IF opt = None THEN default ELSE opt[1]

Range(s) == { s[i] : i \in 1..Len(s) }

\* The characters of a string, each a string of length 1: what iterating a
\* str yields.
Chars(str) == { SubSeq(str, i, i) : i \in 1..Len(str) }

\* The sequences over S of length at most n.
SeqsUpTo(S, n) == UNION { [1..k -> S] : k \in 0..n }

RECURSIVE Concat(_)
\* The concatenation of a sequence of sequences.
Concat(ss) == IF ss = <<>> THEN <<>> ELSE Head(ss) \o Concat(Tail(ss))

\* The number of entries of seq that satisfy Test.
Count(seq, Test(_)) == Len(SelectSeq(seq, Test))

-----------------------------------------------------------------------------
(* RwsSet (RwsSet.py): one set of the collection *)

\* RwsSet(ccTLDs, primary, associated_sites, service_sites): an absent field
\* is an empty dict or list.
RwsSet(ccTLDs, primary, associated_sites, service_sites) ==
    [ccTLDs           |-> GetOr(ccTLDs, <<>>),
     primary          |-> primary,
     associated_sites |-> GetOr(associated_sites, <<>>),
     service_sites    |-> GetOr(service_sites, <<>>)]

\* RwsSet.includes(site, False): site is the primary, an associated site or
\* a service site of the set.
includes(rws, site) ==
    \/ site = rws.primary
    \/ site \in Range(rws.associated_sites)
    \/ site \in Range(rws.service_sites)

\* The keys of the dict check_sets, and `primary in check_sets`.
Keys(sets) == { sets[i].primary : i \in 1..Len(sets) }

-----------------------------------------------------------------------------
(* load_sets *)

LoadOneOverwrite(acc, rwset) ==
    LET primary == rwset.primary
        new     == RwsSet(rwset.ccTLDs, primary, rwset.associatedSites,
                          rwset.serviceSites)
    IN  IF primary \in Keys(acc.check_sets)
        THEN [check_sets |-> [i \in 1..Len(acc.check_sets) |->
                                 IF acc.check_sets[i].primary = primary
                                 THEN new ELSE acc.check_sets[i]],
              errors     |-> Append(acc.errors, <<"already_primary", primary>>)]
        ELSE [check_sets |-> Append(acc.check_sets, new),
              errors     |-> acc.errors]

\* One turn of the loop of load_sets: acc is check_sets and load_sets_errors
\* so far, rwset the raw record.
LoadOne(acc, rwset) ==
    LET primary == rwset.primary
    IN  IF primary \in Keys(acc.check_sets)
        THEN [check_sets |-> acc.check_sets,
              errors     |-> Append(acc.errors, <<"already_primary", primary>>)]
        ELSE [check_sets |-> Append(acc.check_sets,
                                RwsSet(rwset.ccTLDs, primary,
                                       rwset.associatedSites,
                                       rwset.serviceSites)),
              errors     |-> acc.errors]

RECURSIVE LoadFrom(_, _)
LoadFrom(acc, sites) ==
    IF sites = <<>> THEN acc
    ELSE LoadFrom(LoadOne(acc, Head(sites)), Tail(sites))

\* load_sets: the dict it returns and the errors it adds to error_list.
load_sets(sites) == LoadFrom([check_sets |-> <<>>, errors |-> <<>>], sites)

LoadSets ==
    /\ "load_sets" \notin done
    /\ check_sets' = load_sets(rws_sites).check_sets
    /\ error_list' = error_list \o load_sets(rws_sites).errors
    /\ done' = done \cup {"load_sets"}
    /\ UNCHANGED <<rws_sites, warning_texts, icanns, remote, fetched, wk_args,
                   wk_result,
                   subtracted_sets>>

-----------------------------------------------------------------------------
(* has_all_rationales *)

\* The errors of one raw record.  A list is falsy when it is empty; sites is
\* a list, so `sites != None` is true of every record.
RationaleErrors(rwset, sets) ==
    IF rwset.primary \notin Keys(sets) THEN <<>>
    ELSE
      LET sites      == GetOr(rwset.associatedSites, <<>>)
                        \o GetOr(rwset.serviceSites, <<>>)
          rationales == rwset.rationaleBySite
          missing    == IF sites # <<>> /\ rationales # None
                        THEN [i \in 1..Len(SelectSeq(sites,
                                  LAMBDA s : s \notin rationales[1])) |->
                               <<"no_rationale",
                                 SelectSeq(sites,
                                   LAMBDA s : s \notin rationales[1])[i]>>]
                        ELSE <<>>
          required   == IF rationales = None
                        THEN << <<"rationale_required">> >>
                        ELSE <<>>
      IN  missing \o required

has_all_rationales(sites, sets) ==
    Concat([i \in 1..Len(sites) |-> RationaleErrors(sites[i], sets)])

HasAllRationalesAssigning ==
    /\ "load_sets" \in done
    /\ "has_all_rationales" \notin done
    /\ error_list' = has_all_rationales(rws_sites, check_sets)
    /\ done' = done \cup {"has_all_rationales"}
    /\ UNCHANGED <<rws_sites, check_sets, warning_texts, icanns, remote,
                   fetched, wk_args, wk_result, subtracted_sets>>

HasAllRationales ==
    /\ "load_sets" \in done
    /\ "has_all_rationales" \notin done
    /\ error_list' = error_list \o has_all_rationales(rws_sites, check_sets)
    /\ done' = done \cup {"has_all_rationales"}
    /\ UNCHANGED <<rws_sites, check_sets, warning_texts, icanns, remote,
                   fetched, wk_args, wk_result,
                   subtracted_sets>>

-----------------------------------------------------------------------------
(* check_exclusivity *)

\* One step on a list of sites: an error naming the overlap with site_list,
\* or else the sites join site_list.  acc is site_list and the errors so far.
OverlapStep(acc, kind, sites) ==
    LET overlap == Range(sites) \cap acc.site_list
    IN  IF overlap # {}
        THEN [site_list |-> acc.site_list,
              errors    |-> Append(acc.errors, <<kind, overlap>>)]
        ELSE [site_list |-> acc.site_list \cup Range(sites),
              errors    |-> acc.errors]

\* The step on the primary: site_list.update(primary) adds the characters of
\* the string primary, not the string.
PrimaryStep(acc, primary) ==
    IF primary \in acc.site_list
    THEN [site_list |-> acc.site_list,
          errors    |-> Append(acc.errors, <<"primary_registered", primary>>)]
    ELSE [site_list |-> acc.site_list \cup Chars(primary),
          errors    |-> acc.errors]

RECURSIVE AliasSteps(_, _)
\* The loop over rws.ccTLDs.values().
AliasSteps(acc, ccTLDs) ==
    IF ccTLDs = <<>> THEN acc
    ELSE AliasSteps(OverlapStep(acc, "cctld_overlap", Head(ccTLDs)[2]),
                    Tail(ccTLDs))

\* One turn of the loop over check_sets.items().
ExclusivityOne(acc, rws) ==
    AliasSteps(
        OverlapStep(
            OverlapStep(PrimaryStep(acc, rws.primary),
                        "associated_overlap", rws.associated_sites),
            "service_overlap", rws.service_sites),
        rws.ccTLDs)

RECURSIVE ExclusivityFrom(_, _)
ExclusivityFrom(acc, sets) ==
    IF sets = <<>> THEN acc
    ELSE ExclusivityFrom(ExclusivityOne(acc, Head(sets)), Tail(sets))

\* The errors check_exclusivity appends for the dict sets.
check_exclusivity(sets) ==
    ExclusivityFrom([site_list |-> {}, errors |-> <<>>], sets).errors

CheckExclusivity ==
    /\ "load_sets" \in done
    /\ "check_exclusivity" \notin done
    /\ error_list' = error_list \o check_exclusivity(check_sets)
    /\ done' = done \cup {"check_exclusivity"}
    /\ UNCHANGED <<rws_sites, check_sets, warning_texts, icanns, remote,
                   fetched, wk_args, wk_result,
                   subtracted_sets>>

-----------------------------------------------------------------------------
(* Strings *)

\* The characters of the strings the model sorts, in code point order.
Alphabet == "-./0123456789:abcdefghijklmnopqrstuvwxyz"

\* The place of a character in that order.
Rank(c) == CHOOSE i \in 1..Len(Alphabet) : SubSeq(Alphabet, i, i) = c

RECURSIVE LessFrom(_, _, _)
\* a < b for two strings that agree before the i-th character.
LessFrom(a, b, i) ==
    IF i > Len(a) THEN i <= Len(b)
    ELSE IF i > Len(b) THEN FALSE
    ELSE IF SubSeq(a, i, i) = SubSeq(b, i, i) THEN LessFrom(a, b, i + 1)
    ELSE Rank(SubSeq(a, i, i)) < Rank(SubSeq(b, i, i))

\* a < b, as Python compares two str.
StrLess(a, b) == LessFrom(a, b, 1)

RECURSIVE sorted(_)
\* sorted(S) for a set S of strings.
sorted(S) ==
    IF S = {} THEN <<>>
    ELSE LET least == CHOOSE x \in S : \A y \in S \ {x} : StrLess(x, y)
         IN  <<least>> \o sorted(S \ {least})

RECURSIVE SplitFrom(_, _, _, _)
\* str.split(sep) for a separator of one character: i is the place read,
\* from the start of the segment being read.
SplitFrom(str, sep, from, i) ==
    IF i > Len(str) THEN << SubSeq(str, from, Len(str)) >>
    ELSE IF SubSeq(str, i, i) = sep
         THEN << SubSeq(str, from, i - 1) >> \o SplitFrom(str, sep, i + 1, i + 1)
         ELSE SplitFrom(str, sep, from, i + 1)

split(str, sep) == SplitFrom(str, sep, 1, 1)

\* pattern in text, for two str.
Contains(text, pattern) ==
    \E i \in 1..(Len(text) - Len(pattern) + 1) :
        SubSeq(text, i, i + Len(pattern) - 1) = pattern

-----------------------------------------------------------------------------
(* check_well_known_list *)

check_well_known_list_as_sets(field, list1, list2) ==
    IF Range(list1) = Range(list2) THEN <<>>
    ELSE << <<"well_known_inequality", field, list1, list2,
              sorted((Range(list1) \ Range(list2))
                     \cup (Range(list2) \ Range(list1)))>> >>

\* The list it returns: empty, or one diagnostic with the field, both lists
\* and the sorted symmetric difference of their elements.
check_well_known_list(field, list1, list2) ==
    IF list1 = list2 THEN <<>>
    ELSE << <<"well_known_inequality", field, list1, list2,
              sorted((Range(list1) \ Range(list2))
                     \cup (Range(list2) \ Range(list1)))>> >>

\* A call of check_well_known_list on the arguments wk_args.
CheckWellKnownList ==
    /\ wk_args # <<>>
    /\ wk_result = None
    /\ wk_result' = Some(check_well_known_list(wk_args[1], wk_args[2],
                                               wk_args[3]))
    /\ UNCHANGED <<rws_sites, check_sets, error_list, warning_texts, icanns,
                   remote, fetched, wk_args,
                   subtracted_sets, done>>

-----------------------------------------------------------------------------
(* find_invalid_alias_eSLDs *)

icann_check_with_com(aliased_site) == icanns \cup {"com"}

\* icann_check: the top-level labels an alias of aliased_site may end in.
icann_check(aliased_site) ==
    LET aliased_tld == split(aliased_site, ".")[Len(split(aliased_site, "."))]
    IN  IF aliased_tld \in icanns THEN icanns \cup {"com"} ELSE icanns

\* The errors of one alias of aliased_site.
AliasErrors(aliased_site, site) ==
    LET aliased_eSLD == split(aliased_site, ".")[1]
        eSLD         == split(site, ".")[1]
        tld          == split(site, ".")[Len(split(site, "."))]
    IN  (IF eSLD # aliased_eSLD
         THEN << <<"label_mismatch", aliased_site, site>> >> ELSE <<>>)
        \o
        (IF tld \notin icann_check(aliased_site)
         THEN << <<"not_country_code", tld, site>> >> ELSE <<>>)

\* The errors of one entry aliased_site: aliases of the ccTLDs of curr_set.
EntryErrors(primary, curr_set, aliased_site, aliases) ==
    (IF ~includes(curr_set, aliased_site)
     THEN << <<"aliased_not_member", aliased_site, primary>> >> ELSE <<>>)
    \o Concat([j \in 1..Len(aliases) |-> AliasErrors(aliased_site, aliases[j])])

find_invalid_alias_eSLDs(sets) ==
    Concat([k \in 1..Len(sets) |->
        Concat([i \in 1..Len(sets[k].ccTLDs) |->
            EntryErrors(sets[k].primary, sets[k],
                        sets[k].ccTLDs[i][1], sets[k].ccTLDs[i][2])])])

FindInvalidAliasESLDs ==
    /\ "load_sets" \in done
    /\ "find_invalid_alias_eSLDs" \notin done
    /\ error_list' = error_list \o find_invalid_alias_eSLDs(check_sets)
    /\ done' = done \cup {"find_invalid_alias_eSLDs"}
    /\ UNCHANGED <<rws_sites, check_sets, warning_texts, icanns, remote,
                   fetched, wk_args, wk_result,
                   subtracted_sets>>

-----------------------------------------------------------------------------
(* open_and_load_json, check_list_sites, find_invalid_well_known *)

WELL_KNOWN == "/.well-known/related-website-set.json"

\* open_and_load_json(url) returned the dict json.
JsonOk(json) == [ok |-> TRUE, exc |-> "", json |-> json]
\* open_and_load_json(url) raised an exception whose str is exc.
JsonFail(exc) == [ok |-> FALSE, exc |-> exc, json |-> <<>>]

\* A fetched manifest: a dict with the keys of a raw record, each optional.
Manifest(primary, ccTLDs, associated, service) ==
    [primary |-> primary, ccTLDs |-> ccTLDs, associatedSites |-> associated,
     serviceSites |-> service]

\* d.get(key, []) on a dict d of lists.
DictGet(d, key) ==
    IF \E i \in 1..Len(d) : d[i][1] = key
    THEN d[CHOOSE i \in 1..Len(d) : d[i][1] = key][2]
    ELSE <<>>

\* The keys of d1 | d2: those of d1, then those only d2 has.
UnionKeys(d1, d2) ==
    [i \in 1..Len(d1) |-> d1[i][1]]
    \o SelectSeq([i \in 1..Len(d2) |-> d2[i][1]],
                 LAMBDA k : \A i \in 1..Len(d1) : d1[i][1] # k)

\* One turn of the loop of check_list_sites: the fetch of site's manifest
\* and the error it leads to, if any.
ListSiteErrors(primary, site) ==
    LET url == site \o WELL_KNOWN
    IN  IF remote[url].ok
        THEN IF remote[url].json.primary = None
             THEN << <<"member_no_primary", site>> >>
             ELSE IF remote[url].json.primary[1] # primary
                  THEN << <<"member_wrong_primary", primary, site>> >>
                  ELSE <<>>
        ELSE << <<"access_error", url, remote[url].exc>> >>

\* check_list_sites: the errors it appends and the URLs it fetches.
check_list_sites(primary, site_list) ==
    [errors  |-> Concat([i \in 1..Len(site_list) |->
                           ListSiteErrors(primary, site_list[i])]),
     fetched |-> [i \in 1..Len(site_list) |-> site_list[i] \o WELL_KNOWN]]

\* The try block of find_invalid_well_known for one set: the comparison of
\* the fetched manifest with the set, or the error of the failed fetch.
ManifestErrors(primary, curr_rws_set) ==
    LET url == primary \o WELL_KNOWN
        json == remote[url].json
        well_known_set == RwsSet(json.ccTLDs, json.primary,
                                 json.associatedSites, json.serviceSites)
        keys == UnionKeys(curr_rws_set.ccTLDs, well_known_set.ccTLDs)
    IN  IF remote[url].ok
        THEN (IF well_known_set.primary # Some(curr_rws_set.primary)
              THEN << <<"well_known_primary", well_known_set.primary,
                        curr_rws_set.primary>> >>
              ELSE <<>>)
             \o check_well_known_list("associatedSites",
                                      curr_rws_set.associated_sites,
                                      well_known_set.associated_sites)
             \o check_well_known_list("serviceSites",
                                      curr_rws_set.service_sites,
                                      well_known_set.service_sites)
             \o Concat([i \in 1..Len(keys) |->
                    check_well_known_list(keys[i] \o " alias list",
                        DictGet(curr_rws_set.ccTLDs, keys[i]),
                        DictGet(well_known_set.ccTLDs, keys[i]))])
        ELSE << <<"access_error", url, remote[url].exc>> >>

\* The member sites of a set: the list handed to check_list_sites.
Members(curr_rws_set) ==
    curr_rws_set.associated_sites \o curr_rws_set.service_sites
    \o Concat([i \in 1..Len(curr_rws_set.ccTLDs) |->
                 curr_rws_set.ccTLDs[i][2]])

WellKnownOneInsideTry(curr_rws_set) ==
    IF remote[curr_rws_set.primary \o WELL_KNOWN].ok
    THEN [errors  |-> ManifestErrors(curr_rws_set.primary, curr_rws_set)
                      \o check_list_sites(curr_rws_set.primary,
                                          Members(curr_rws_set)).errors,
          fetched |-> << curr_rws_set.primary \o WELL_KNOWN >>
                      \o check_list_sites(curr_rws_set.primary,
                                          Members(curr_rws_set)).fetched]
    ELSE [errors  |-> ManifestErrors(curr_rws_set.primary, curr_rws_set),
          fetched |-> << curr_rws_set.primary \o WELL_KNOWN >>]

\* One turn of the loop of find_invalid_well_known.
WellKnownOne(curr_rws_set) ==
    [errors  |-> ManifestErrors(curr_rws_set.primary, curr_rws_set)
                 \o check_list_sites(curr_rws_set.primary,
                                     Members(curr_rws_set)).errors,
     fetched |-> << curr_rws_set.primary \o WELL_KNOWN >>
                 \o check_list_sites(curr_rws_set.primary,
                                     Members(curr_rws_set)).fetched]

\* find_invalid_well_known: the errors it appends and the URLs it fetches.
find_invalid_well_known(sets) ==
    [errors  |-> Concat([k \in 1..Len(sets) |-> WellKnownOne(sets[k]).errors]),
     fetched |-> Concat([k \in 1..Len(sets) |-> WellKnownOne(sets[k]).fetched])]

FindInvalidWellKnown ==
    /\ "load_sets" \in done
    /\ "find_invalid_well_known" \notin done
    /\ error_list' = error_list \o find_invalid_well_known(check_sets).errors
    /\ fetched' = fetched \o find_invalid_well_known(check_sets).fetched
    /\ done' = done \cup {"find_invalid_well_known"}
    /\ UNCHANGED <<rws_sites, check_sets, warning_texts, icanns, remote,
                   wk_args, wk_result,
                   subtracted_sets>>

-----------------------------------------------------------------------------
(* find_ads_txt, check_for_service_redirect *)

\* requests.get(url) returned a response with this status_code and, after
\* following redirects, this url.
HttpOk(status_code, url) ==
    [ok |-> TRUE, exc |-> "", status_code |-> status_code, url |-> url]
\* requests.get(url) raised an exception whose str is exc.
HttpFail(exc) == [ok |-> FALSE, exc |-> exc, status_code |-> 0, url |-> ""]

\* The service sites of all sets, in the order both checks visit them.
ServiceSites(sets) ==
    Concat([k \in 1..Len(sets) |-> sets[k].service_sites])

AdsTxtErrorsNot404(service_site) ==
    LET r == remote[service_site \o "/ads.txt"]
    IN  IF r.ok
        THEN IF r.status_code # 404
             THEN << <<"ads_txt", service_site>> >> ELSE <<>>
        ELSE IF ~Contains(r.exc, "Max retries exceeded with url: /ads.txt")
             THEN IF ~Contains(r.exc, "Read timed out. (read timeout=10)")
                  THEN << <<"unexpected_service", service_site, r.exc>> >>
                  ELSE <<>>
             ELSE <<>>

\* The body of the loop of find_ads_txt for one service site.
AdsTxtErrors(service_site) ==
    LET r == remote[service_site \o "/ads.txt"]
    IN  IF r.ok
        THEN IF r.status_code = 200
             THEN << <<"ads_txt", service_site>> >> ELSE <<>>
        ELSE IF ~Contains(r.exc, "Max retries exceeded with url: /ads.txt")
             THEN IF ~Contains(r.exc, "Read timed out. (read timeout=10)")
                  THEN << <<"unexpected_service", service_site, r.exc>> >>
                  ELSE <<>>
             ELSE <<>>

find_ads_txt(sets) ==
    [errors  |-> Concat([i \in 1..Len(ServiceSites(sets)) |->
                           AdsTxtErrors(ServiceSites(sets)[i])]),
     fetched |-> [i \in 1..Len(ServiceSites(sets)) |->
                    ServiceSites(sets)[i] \o "/ads.txt"]]

FindAdsTxt ==
    /\ "load_sets" \in done
    /\ "find_ads_txt" \notin done
    /\ error_list' = error_list \o find_ads_txt(check_sets).errors
    /\ fetched' = fetched \o find_ads_txt(check_sets).fetched
    /\ done' = done \cup {"find_ads_txt"}
    /\ UNCHANGED <<rws_sites, check_sets, warning_texts, icanns, remote,
                   wk_args, wk_result,
                   subtracted_sets>>

RedirectErrorsNoSlash(service_site) ==
    LET r == remote[service_site]
    IN  IF r.ok
        THEN IF r.status_code < 400 \/ r.status_code >= 600
             THEN IF r.url = service_site
                  THEN << <<"service_endpoint", service_site>> >> ELSE <<>>
             ELSE <<>>
        ELSE IF ~Contains(r.exc, "Max retries exceeded with url: /")
             THEN IF ~Contains(r.exc, "Read timed out. (read timeout=10)")
                  THEN << <<"unexpected_service", service_site, r.exc>> >>
                  ELSE <<>>
             ELSE <<>>

\* The body of the loop of check_for_service_redirect for one service site.
RedirectErrors(service_site) ==
    LET r == remote[service_site]
    IN  IF r.ok
        THEN IF r.status_code < 400 \/ r.status_code >= 600
             THEN IF r.url = service_site \/ r.url = service_site \o "/"
                  THEN << <<"service_endpoint", service_site>> >> ELSE <<>>
             ELSE <<>>
        ELSE IF ~Contains(r.exc, "Max retries exceeded with url: /")
             THEN IF ~Contains(r.exc, "Read timed out. (read timeout=10)")
                  THEN << <<"unexpected_service", service_site, r.exc>> >>
                  ELSE <<>>
             ELSE <<>>

check_for_service_redirect(sets) ==
    [errors  |-> Concat([i \in 1..Len(ServiceSites(sets)) |->
                           RedirectErrors(ServiceSites(sets)[i])]),
     fetched |-> ServiceSites(sets)]

CheckForServiceRedirect ==
    /\ "load_sets" \in done
    /\ "check_for_service_redirect" \notin done
    /\ error_list' = error_list \o check_for_service_redirect(check_sets).errors
    /\ fetched' = fetched \o check_for_service_redirect(check_sets).fetched
    /\ done' = done \cup {"check_for_service_redirect"}
    /\ UNCHANGED <<rws_sites, check_sets, warning_texts, icanns, remote,
                   wk_args, wk_result,
                   subtracted_sets>>

-----------------------------------------------------------------------------
(* check_associated_count *)

ASSOCIATED_LIMIT == 5

\* The warnings of check_associated_count: one for each set with more than
\* ASSOCIATED_LIMIT associated sites.
check_associated_count(sets) ==
    Concat([k \in 1..Len(sets) |->
        IF Len(sets[k].associated_sites) > ASSOCIATED_LIMIT
        THEN << <<"associated_limit", sets[k].primary, ASSOCIATED_LIMIT>> >>
        ELSE <<>>])

CheckAssociatedCount ==
    /\ "load_sets" \in done
    /\ "check_associated_count" \notin done
    /\ warning_texts' = warning_texts \o check_associated_count(check_sets)
    /\ done' = done \cup {"check_associated_count"}
    /\ UNCHANGED <<rws_sites, check_sets, error_list, icanns, remote, fetched,
                   wk_args, wk_result, subtracted_sets>>

-----------------------------------------------------------------------------
(* find_non_https_urls, find_invalid_eTLD_Plus1 *)

\* str.startswith(prefix) and str.removeprefix(prefix).
startswith(str, prefix) ==
    Len(str) >= Len(prefix) /\ SubSeq(str, 1, Len(prefix)) = prefix

removeprefix(str, prefix) ==
    IF startswith(str, prefix)
    THEN SubSeq(str, Len(prefix) + 1, Len(str)) ELSE str

url_is_https(site) == startswith(site, "https://")

\* The sites of one set in the order both checks visit them, each with the
\* field the error names: the primary, then each aliased site followed by
\* its aliases, then the associated sites, then the service sites.
FieldSites(curr_set) ==
    << <<"primary", curr_set.primary>> >>
    \o Concat([i \in 1..Len(curr_set.ccTLDs) |->
          << <<"aliased", curr_set.ccTLDs[i][1]>> >>
          \o [j \in 1..Len(curr_set.ccTLDs[i][2]) |->
                <<"alias", curr_set.ccTLDs[i][2][j]>>]])
    \o [i \in 1..Len(curr_set.associated_sites) |->
          <<"associated", curr_set.associated_sites[i]>>]
    \o [i \in 1..Len(curr_set.service_sites) |->
          <<"service", curr_set.service_sites[i]>>]

find_non_https_urls(sets) ==
    Concat([k \in 1..Len(sets) |->
        LET bad == SelectSeq(FieldSites(sets[k]),
                             LAMBDA fs : ~url_is_https(fs[2]))
        IN  [i \in 1..Len(bad) |-> <<"not_https", bad[i][1], bad[i][2]>>]])

FindNonHttpsUrlsUnlessErrors ==
    /\ "load_sets" \in done
    /\ "find_non_https_urls" \notin done
    /\ error_list' = IF error_list # <<>> THEN error_list
                     ELSE error_list \o find_non_https_urls(check_sets)
    /\ done' = done \cup {"find_non_https_urls"}
    /\ UNCHANGED <<rws_sites, check_sets, warning_texts, icanns, remote,
                   fetched, wk_args, wk_result, subtracted_sets>>

FindNonHttpsUrls ==
    /\ "load_sets" \in done
    /\ "find_non_https_urls" \notin done
    /\ error_list' = error_list \o find_non_https_urls(check_sets)
    /\ done' = done \cup {"find_non_https_urls"}
    /\ UNCHANGED <<rws_sites, check_sets, warning_texts, icanns, remote,
                   fetched, wk_args, wk_result, subtracted_sets>>

\* self.etlds: the public suffix list, here a list of plain rules.
etlds == {"com", "de", "fr", "uk", "co.uk"}

\* The labels of a sequence joined with dots.
RECURSIVE Join(_)
Join(labels) ==
    IF Len(labels) = 1 THEN labels[1]
    ELSE labels[1] \o "." \o Join(Tail(labels))

\* The suffixes of site at a label boundary that are public suffixes, as the
\* number of labels each has.
SuffixLengths(site) ==
    LET labels == split(site, ".")
    IN  { n \in 1..Len(labels) :
            Join(SubSeq(labels, Len(labels) - n + 1, Len(labels))) \in etlds }

\* etlds.get_tld(site, strict=True): the longest public suffix of site, or
\* None when no rule matches.
get_tld(site) ==
    LET labels == split(site, ".")
        n == CHOOSE n \in SuffixLengths(site) :
                 \A m \in SuffixLengths(site) : m <= n
    IN  IF SuffixLengths(site) = {} THEN None
        ELSE Some(Join(SubSeq(labels, Len(labels) - n + 1, Len(labels))))

\* etlds.get_sld(site, strict=True): the public suffix and the label before
\* it; the public suffix alone when site is one; None when no rule matches.
get_sld(site) ==
    LET labels == split(site, ".")
        n == CHOOSE n \in SuffixLengths(site) :
                 \A m \in SuffixLengths(site) : m <= n
    IN  IF SuffixLengths(site) = {} THEN None
        ELSE IF n = Len(labels) THEN Some(site)
        ELSE Some(Join(SubSeq(labels, Len(labels) - n, Len(labels))))

is_eTLD_Plus1(site) ==
    LET bare == removeprefix(site, "https://")
    IN  get_sld(bare) = Some(bare) /\ ~(get_tld(bare) = Some(bare))

find_invalid_eTLD_Plus1(sets) ==
    Concat([k \in 1..Len(sets) |->
        LET bad == SelectSeq(FieldSites(sets[k]),
                             LAMBDA fs : ~is_eTLD_Plus1(fs[2]))
        IN  [i \in 1..Len(bad) |-> <<"not_etld_plus1", bad[i][1], bad[i][2]>>]])

FindInvalidETLDPlus1 ==
    /\ "load_sets" \in done
    /\ "find_invalid_eTLD_Plus1" \notin done
    /\ error_list' = error_list \o find_invalid_eTLD_Plus1(check_sets)
    /\ done' = done \cup {"find_invalid_eTLD_Plus1"}
    /\ UNCHANGED <<rws_sites, check_sets, warning_texts, icanns, remote,
                   fetched, wk_args, wk_result, subtracted_sets>>

-----------------------------------------------------------------------------
(* find_invalid_removal *)

\* The body of the loop of find_invalid_removal for one removed primary.
RemovalErrors(primary) ==
    LET url == primary \o WELL_KNOWN
        r   == remote[url]
    IN  IF r.ok
        THEN IF r.status_code # 404
             THEN << <<"removed_not_404", primary, url>> >> ELSE <<>>
        ELSE << <<"removal_error", url, r.exc>> >>

find_invalid_removal(subtracted) ==
    [errors  |-> Concat([k \in 1..Len(subtracted) |->
                           RemovalErrors(subtracted[k].primary)]),
     fetched |-> [k \in 1..Len(subtracted) |->
                    subtracted[k].primary \o WELL_KNOWN]]

FindInvalidRemoval ==
    /\ "find_invalid_removal" \notin done
    /\ error_list' = error_list \o find_invalid_removal(subtracted_sets).errors
    /\ fetched' = fetched \o find_invalid_removal(subtracted_sets).fetched
    /\ done' = done \cup {"find_invalid_removal"}
    /\ UNCHANGED <<rws_sites, check_sets, warning_texts, icanns, remote,
                   wk_args, wk_result, subtracted_sets>>

-----------------------------------------------------------------------------
(* find_robots_tag *)

\* requests.get(service_site, allow_redirects=False) is a request of its own:
\* the name of its outcome in remote.
NoRedirects(service_site) == service_site \o " allow_redirects=False"

\* It returned a response whose headers have this X-Robots-Tag, or none.
HeadersOk(robots_tag) == [ok |-> TRUE, exc |-> "", robots_tag |-> robots_tag]
\* It raised an exception whose str is exc.
HeadersFail(exc) == [ok |-> FALSE, exc |-> exc, robots_tag |-> None]

\* The body of the loop of find_robots_tag for one service site.
RobotsErrors(service_site) ==
    LET r == remote[NoRedirects(service_site)]
    IN  IF r.ok
        THEN IF r.robots_tag = None
             THEN << <<"no_robots_tag", service_site>> >>
             ELSE IF Contains(r.robots_tag[1], ":")
                  THEN << <<"robots_policy", service_site>> >>
                  ELSE IF ~Contains(r.robots_tag[1], "none")
                          /\ ~Contains(r.robots_tag[1], "noindex")
                       THEN << <<"robots_no_noindex", service_site>> >>
                       ELSE <<>>
        ELSE << <<"robots_error", service_site, r.exc>> >>

find_robots_tag(sets) ==
    [errors  |-> Concat([i \in 1..Len(ServiceSites(sets)) |->
                           RobotsErrors(ServiceSites(sets)[i])]),
     fetched |-> [i \in 1..Len(ServiceSites(sets)) |->
                    NoRedirects(ServiceSites(sets)[i])]]

FindRobotsTag ==
    /\ "load_sets" \in done
    /\ "find_robots_tag" \notin done
    /\ error_list' = error_list \o find_robots_tag(check_sets).errors
    /\ fetched' = fetched \o find_robots_tag(check_sets).fetched
    /\ done' = done \cup {"find_robots_tag"}
    /\ UNCHANGED <<rws_sites, check_sets, warning_texts, icanns, remote,
                   wk_args, wk_result, subtracted_sets>>

-----------------------------------------------------------------------------
(* Submissions *)

\* The raw records with the given choices for each key.
RawRecords(primaries, ccTLDs, associated, service, rationales) ==
    [primary         : primaries,
     ccTLDs          : ccTLDs,
     associatedSites : associated,
     serviceSites    : service,
     rationaleBySite : rationales]

\* The submissions of at most MaxRecords records of a pool.
Docs(pool) == SeqsUpTo(pool, MaxRecords)

\* The state after RwsCheck.__init__, before any operation: the submission
\* is one of docs, the country codes one of codes, and both lists are empty.
Start(docs, codes) ==
    /\ rws_sites \in docs
    /\ icanns \in codes
    /\ check_sets = <<>>
    /\ error_list = <<>>
    /\ warning_texts = <<>>
    /\ fetched = <<>>
    /\ wk_result = None
    /\ done = {}

-----------------------------------------------------------------------------
(* Spec: load_sets and has_all_rationales on submissions with rationales *)

RationaleRecords ==
    RawRecords({"https://a.com", "https://b.com"},
               {None},
               {None, Some(<<>>), Some(<<"https://c.com">>)},
               {None, Some(<<"https://d.com">>)},
               {None, Some({}), Some({"https://c.com"}),
                Some({"https://c.com", "https://d.com"})})

Init ==
    /\ Start(Docs(RationaleRecords), {{}})
    /\ subtracted_sets = <<>>
    /\ remote = <<>>
    /\ wk_args = <<>>

Next == LoadSets \/ HasAllRationales

Spec == Init /\ [][Next]_vars

\* C1: once load_sets has run, check_sets has exactly one entry per distinct
\* primary of the submission, each entry is the RwsSet of the first record
\* with that primary, and the uniqueness errors are exactly one
\* '<primary> is already a primary of another site' per later record whose
\* primary an earlier record has, in the order of the records (so their
\* number is the number of records minus the number of distinct primaries).
C1_LoadSetsKeepsFirst ==
    "load_sets" \in done =>
      LET n       == Len(rws_sites)
          prims   == { rws_sites[i].primary : i \in 1..n }
          first(p) == CHOOSE i \in 1..n :
                        /\ rws_sites[i].primary = p
                        /\ \A j \in 1..(i-1) : rws_sites[j].primary # p
          later   == SelectSeq([i \in 1..n |-> i],
                       LAMBDA j : \E i \in 1..(j-1) :
                                    rws_sites[i].primary = rws_sites[j].primary)
          uniq    == SelectSeq(error_list, LAMBDA e : e[1] = "already_primary")
      IN  /\ Keys(check_sets) = prims
          /\ Len(check_sets) = Cardinality(prims)
          /\ \A k \in 1..Len(check_sets) :
               LET r == rws_sites[first(check_sets[k].primary)]
               IN  check_sets[k] = RwsSet(r.ccTLDs, r.primary,
                                          r.associatedSites, r.serviceSites)
          /\ Len(uniq) = n - Cardinality(prims)
          /\ uniq = [k \in 1..Len(later) |->
                       <<"already_primary", rws_sites[later[k]].primary>>]

\* C1's case: load_sets has run on a submission whose second record repeats
\* the first one's primary with other sites, and one error was appended.
C1_Witness ==
    /\ "load_sets" \in done
    /\ Len(rws_sites) = 2
    /\ rws_sites[1].primary = rws_sites[2].primary
    /\ GetOr(rws_sites[1].associatedSites, <<>>)
         # GetOr(rws_sites[2].associatedSites, <<>>)
    /\ Len(check_sets) = 1
    /\ error_list = << <<"already_primary", rws_sites[1].primary>> >>

\* C5: once has_all_rationales has run, the 'rationaleBySite field is
\* required' errors number the records whose associated+service list is
\* non-empty and that have no rationaleBySite, and the 'no provided
\* rationale' errors are one per listed site missing from a present mapping.
C5_RationaleErrorsAsClaimed ==
    "has_all_rationales" \in done =>
      LET n        == Len(rws_sites)
          sites(i) == GetOr(rws_sites[i].associatedSites, <<>>)
                      \o GetOr(rws_sites[i].serviceSites, <<>>)
          needs    == { i \in 1..n : /\ sites(i) # <<>>
                                     /\ rws_sites[i].rationaleBySite = None }
          lacks    == UNION { { <<i, k>> : k \in { k \in 1..Len(sites(i)) :
                          /\ rws_sites[i].rationaleBySite # None
                          /\ sites(i)[k] \notin rws_sites[i].rationaleBySite[1] } } :
                        i \in 1..n }
      IN  /\ Count(error_list, LAMBDA e : e[1] = "rationale_required")
               = Cardinality(needs)
          /\ Count(error_list, LAMBDA e : e[1] = "no_rationale")
               = Cardinality(lacks)

\* The records of the submission that load_sets kept: those whose primary no
\* earlier record has.
FirstRecords ==
    LET kept == SelectSeq([i \in 1..Len(rws_sites) |-> i],
                          LAMBDA i : \A j \in 1..(i - 1) :
                                       rws_sites[j].primary # rws_sites[i].primary)
    IN  [k \in 1..Len(kept) |-> rws_sites[kept[k]]]

IsRationaleError(e) == e[1] \in {"no_rationale", "rationale_required"}

\* C14: once has_all_rationales has run, the rationale errors in error_list
\* are those of the records load_sets kept: a record whose primary an earlier
\* record has adds none, whatever its sites and rationaleBySite are.
C14_DuplicateAddsNoRationaleError ==
    "has_all_rationales" \in done =>
      SelectSeq(error_list, IsRationaleError)
        = has_all_rationales(FirstRecords, check_sets)

-----------------------------------------------------------------------------
(* SpecExclusivity: load_sets and check_exclusivity on submissions whose    *)
(* sets may share domains                                                   *)

ExclusivityRecords ==
    RawRecords({"https://a.com", "https://b.com"},
               {None, Some(<< <<"https://a.com", <<"https://a.de">> >> >>)},
               {None, Some(<<"https://b.com">>), Some(<<"https://c.com">>),
                Some(<<"https://b.com", "https://c.com">>)},
               {None, Some(<<"https://c.com">>), Some(<<"https://a.de">>)},
               {None})

InitExclusivity ==
    /\ Start(Docs(ExclusivityRecords), {{}})
    /\ subtracted_sets = <<>>
    /\ remote = <<>>
    /\ wk_args = <<>>

NextExclusivity == LoadSets \/ CheckExclusivity

SpecExclusivity == InitExclusivity /\ [][NextExclusivity]_vars

\* Every domain of a set, in the order check_exclusivity visits them: the
\* primary, the associated sites, the service sites, the ccTLD aliases.
AllSites(rws) ==
    <<rws.primary>> \o rws.associated_sites \o rws.service_sites
    \o Concat([i \in 1..Len(rws.ccTLDs) |-> rws.ccTLDs[i][2]])

IsExclusivityError(e) ==
    e[1] \in {"primary_registered", "associated_overlap", "service_overlap",
              "cctld_overlap"}

\* The errors of check_exclusivity in error_list.
ExclusivityErrors == SelectSeq(error_list, IsExclusivityError)

\* The error e names the domain d and no other.
NamesOnly(e, d) ==
    IF e[1] = "primary_registered" THEN e[2] = d ELSE e[2] = {d}

\* A and B share no domain except that one associated site of A is B's
\* primary, and neither lists a domain twice.
ShareOnlyAssociatedPrimary(A, B) ==
    /\ Range(AllSites(A)) \cap Range(AllSites(B)) = {B.primary}
    /\ B.primary \in Range(A.associated_sites)
    /\ Cardinality(Range(AllSites(A))) = Len(AllSites(A))
    /\ Cardinality(Range(AllSites(B))) = Len(AllSites(B))

\* C2: once check_exclusivity has run on two sets A and B that share only
\* B's primary, an associated site of A, it has appended exactly one error,
\* naming that domain, whichever of the two comes first.
C2_OneErrorEitherOrder ==
    ("check_exclusivity" \in done /\ Len(check_sets) = 2) =>
      \A i, j \in 1..2 :
        ShareOnlyAssociatedPrimary(check_sets[i], check_sets[j]) =>
          /\ Len(ExclusivityErrors) = 1
          /\ NamesOnly(ExclusivityErrors[1], check_sets[j].primary)

Reverse(seq) == [i \in 1..Len(seq) |-> seq[Len(seq) + 1 - i]]

\* C3: once check_exclusivity has run on two sets, the number of errors it
\* appended is the number it appends for the same two sets in the other
\* order.
C3_SameCountBothOrders ==
    ("check_exclusivity" \in done /\ Len(check_sets) = 2) =>
      Len(ExclusivityErrors) = Len(check_exclusivity(Reverse(check_sets)))

\* C4: once check_exclusivity has run, if some domain occurs in two
\* different sets then it has appended at least one error.
C4_EveryOverlapReported ==
    "check_exclusivity" \in done =>
      ((\E i, j \in 1..Len(check_sets) :
          /\ i # j
          /\ Range(AllSites(check_sets[i]))
               \cap Range(AllSites(check_sets[j])) # {})
        => Len(ExclusivityErrors) >= 1)

-----------------------------------------------------------------------------
(* SpecWellKnownList: check_well_known_list on pairs of lists               *)

WellKnownSites == {"https://a.com", "https://b.com", "https://b.de"}

InitWellKnownList ==
    /\ Start({<<>>}, {{}})
    /\ subtracted_sets = <<>>
    /\ remote = <<>>
    /\ wk_args \in {"associatedSites", "serviceSites"}
                   \X SeqsUpTo(WellKnownSites, MaxList)
                   \X SeqsUpTo(WellKnownSites, MaxList)

NextWellKnownList == CheckWellKnownList

SpecWellKnownList == InitWellKnownList /\ [][NextWellKnownList]_vars

-----------------------------------------------------------------------------
(* SpecAlias: load_sets and find_invalid_alias_eSLDs on submissions with    *)
(* ccTLDs                                                                   *)

AliasRecords ==
    RawRecords({"https://ex.de", "https://ex.org"},
               {None}
               \cup { Some(<< <<a, l>> >>) :
                        a \in {"https://ex.de", "https://ex.org"},
                        l \in {<<"https://ex.com">>,
                               <<"https://ex.fr", "https://ex.com">>,
                               <<"https://other.fr", "https://ex.co.uk">>} }
               \cup { Some(<< <<"https://ex.de", <<"https://ex.com">> >>,
                              <<"https://ex.org", <<"https://ex.com">> >> >>) },
               {None, Some(<<"https://ex.org">>)},
               {None},
               {None})

InitAlias ==
    /\ Start(Docs(AliasRecords), {{"de", "fr"}, {"de", "uk"}})
    /\ subtracted_sets = <<>>
    /\ remote = <<>>
    /\ wk_args = <<>>

NextAlias == LoadSets \/ FindInvalidAliasESLDs

SpecAlias == InitAlias /\ [][NextAlias]_vars

\* The aliases of check_sets: <<k, i, j>> is the j-th alias of the i-th
\* ccTLD entry of the k-th set.
AliasPlaces ==
    UNION { UNION { { <<k, i, j>> : j \in 1..Len(check_sets[k].ccTLDs[i][2]) } :
                    i \in 1..Len(check_sets[k].ccTLDs) } :
            k \in 1..Len(check_sets) }

AliasedAt(p) == check_sets[p[1]].ccTLDs[p[2]][1]
AliasAt(p) == check_sets[p[1]].ccTLDs[p[2]][2][p[3]]

\* The segment of a domain before its first '.', and the one after its last.
FirstLabel(site) == split(site, ".")[1]
LastLabel(site) == split(site, ".")[Len(split(site, "."))]

\* The top-level labels C7 accepts for an alias of aliased.
Acceptable(aliased) ==
    IF LastLabel(aliased) \in icanns THEN icanns \cup {"com"} ELSE icanns

\* C7: once find_invalid_alias_eSLDs has run, its country-code errors are one
\* per alias whose last label is not acceptable for its aliasedSite (the
\* recognized codes, and 'com' when the aliasedSite's own last label is a
\* recognized code), each naming that label and the alias; and its mismatch
\* errors are one per alias whose first label differs from the aliasedSite's,
\* each naming the aliasedSite and the alias.
C7_AliasErrors ==
    "find_invalid_alias_eSLDs" \in done =>
      LET badCode  == { p \in AliasPlaces :
                          LastLabel(AliasAt(p)) \notin Acceptable(AliasedAt(p)) }
          badLabel == { p \in AliasPlaces :
                          FirstLabel(AliasAt(p)) # FirstLabel(AliasedAt(p)) }
      IN  /\ Count(error_list, LAMBDA e : e[1] = "not_country_code")
               = Cardinality(badCode)
          /\ Count(error_list, LAMBDA e : e[1] = "label_mismatch")
               = Cardinality(badLabel)
          /\ \A q \in AliasPlaces :
               /\ Count(error_list, LAMBDA e :
                      /\ e[1] = "not_country_code"
                      /\ e[2] = LastLabel(AliasAt(q)) /\ e[3] = AliasAt(q))
                    = Cardinality({ p \in badCode : AliasAt(p) = AliasAt(q) })
               /\ Count(error_list, LAMBDA e :
                      /\ e[1] = "label_mismatch"
                      /\ e[2] = AliasedAt(q) /\ e[3] = AliasAt(q))
                    = Cardinality({ p \in badLabel :
                                      /\ AliasAt(p) = AliasAt(q)
                                      /\ AliasedAt(p) = AliasedAt(q) })

\* C7's case: with 'de' a recognized code and 'org' not, the alias
\* https://ex.com is accepted under https://ex.de and rejected under
\* https://ex.org in the same run.
C7_Witness ==
    /\ "find_invalid_alias_eSLDs" \in done
    /\ \E p, q \in AliasPlaces :
         /\ AliasAt(p) = "https://ex.com" /\ AliasedAt(p) = "https://ex.de"
         /\ AliasAt(q) = "https://ex.com" /\ AliasedAt(q) = "https://ex.org"
    /\ Count(error_list, LAMBDA e : e[1] = "not_country_code") = 1
    /\ Count(error_list, LAMBDA e : e = <<"not_country_code", "com",
                                          "https://ex.com">>) = 1

-----------------------------------------------------------------------------
(* SpecWellKnown: load_sets and find_invalid_well_known against remote      *)
(* sites that answer or fail                                                *)

WellKnownRecords ==
    { [primary |-> p, ccTLDs |-> m[1], associatedSites |-> m[2],
       serviceSites |-> m[3], rationaleBySite |-> None] :
        p \in {"https://a.com", "https://b.com"},
        m \in { <<None, None, None>>,
                <<None, Some(<<"https://c.com">>), None>>,
                <<None, None, Some(<<"https://a.de">>)>>,
                <<Some(<< <<"https://a.com", <<"https://a.de">> >> >>),
                  Some(<<"https://c.com">>), Some(<<"https://c.com">>)>> } }

\* What the fetch of a manifest may do.
WellKnownResponses ==
    { JsonFail("HTTP Error 404: Not Found"),
      JsonFail("<urlopen error timed out>"),
      JsonOk(Manifest(None, None, None, None)),
      JsonOk(Manifest(Some("https://a.com"), None,
                      Some(<<"https://c.com">>), None)) }

WellKnownURLs ==
    { site \o WELL_KNOWN :
        site \in {"https://a.com", "https://b.com", "https://c.com",
                  "https://a.de"} }

InitWellKnown ==
    /\ Start(Docs(WellKnownRecords), {{}})
    /\ subtracted_sets = <<>>
    /\ remote \in [WellKnownURLs -> WellKnownResponses]
    /\ wk_args = <<>>

NextWellKnown == LoadSets \/ FindInvalidWellKnown

SpecWellKnown == InitWellKnown /\ [][NextWellKnown]_vars

\* The fetches find_invalid_well_known owes: <<k, 0>> is the manifest of the
\* k-th set's primary, <<k, j>> that of its j-th member site.
FetchPlaces ==
    UNION { { <<k, j>> : j \in 0..Len(Members(check_sets[k])) } :
            k \in 1..Len(check_sets) }

FetchURL(p) ==
    IF p[2] = 0 THEN check_sets[p[1]].primary \o WELL_KNOWN
    ELSE Members(check_sets[p[1]])[p[2]] \o WELL_KNOWN

-----------------------------------------------------------------------------
(* SpecAds and SpecRedirect: load_sets and one check of the service sites   *)
(* against remote sites that answer or fail                                 *)

ServiceRecords ==
    RawRecords({"https://a.com", "https://b.com"},
               {None},
               {None},
               {None, Some(<<"https://s.com">>),
                Some(<<"https://s.com", "https://t.com">>)},
               {None})

ServicePool == {"https://s.com", "https://t.com"}

\* The exceptions requests.get may raise: too many retries on /ads.txt, too
\* many retries on /, a read timeout, and one of no known text.
RetriesAdsText ==
    "HTTPSConnectionPool(host='s.com', port=443): Max retries exceeded with url: /ads.txt (Caused by NewConnectionError)"
RetriesRootText ==
    "HTTPSConnectionPool(host='s.com', port=443): Max retries exceeded with url: / (Caused by NewConnectionError)"
TimeoutText ==
    "HTTPSConnectionPool(host='s.com', port=443): Read timed out. (read timeout=10)"
OtherText == "Exceeded 30 redirects."

ExceptionTexts == {RetriesAdsText, RetriesRootText, TimeoutText, OtherText}

AdsResponses ==
    { HttpOk(c, "") : c \in {200, 301, 404} }
    \cup { HttpFail(t) : t \in ExceptionTexts }

InitAds ==
    /\ Start(Docs(ServiceRecords), {{}})
    /\ subtracted_sets = <<>>
    /\ remote \in [{ site \o "/ads.txt" : site \in ServicePool } -> AdsResponses]
    /\ wk_args = <<>>

NextAds == LoadSets \/ FindAdsTxt

SpecAds == InitAds /\ [][NextAds]_vars

\* The places of the service sites: <<k, j>> is the j-th service site of the
\* k-th set.
ServicePlaces ==
    UNION { { <<k, j>> : j \in 1..Len(check_sets[k].service_sites) } :
            k \in 1..Len(check_sets) }

ServiceAt(p) == check_sets[p[1]].service_sites[p[2]]

\* The exception text matches one of the two patterns, the first being the
\* retries pattern of the check.
Benign(text, retries) ==
    \/ Contains(text, retries)
    \/ Contains(text, "Read timed out. (read timeout=10)")

RedirectResponses(site) ==
    { HttpOk(c, u) : c \in {200, 399, 400, 599, 600},
                     u \in {site, site \o "/", "https://www.example.com/"} }
    \cup { HttpFail(t) : t \in ExceptionTexts }

InitRedirect ==
    /\ Start(Docs(ServiceRecords), {{}})
    /\ subtracted_sets = <<>>
    /\ remote \in { f \in [ServicePool -> UNION { RedirectResponses(site) :
                                                    site \in ServicePool }] :
                      \A site \in ServicePool : f[site] \in RedirectResponses(site) }
    /\ wk_args = <<>>

NextRedirect == LoadSets \/ CheckForServiceRedirect

SpecRedirect == InitRedirect /\ [][NextRedirect]_vars

\* C10: once check_for_service_redirect has run, each service site listed has
\* one 'must not be an endpoint' error if the fetch ended with a status
\* outside 400..599 at the site's own URL or that URL plus '/', one
\* unexpected-error if the fetch raised an exception matching neither benign
\* pattern, and no error otherwise.
C10_RedirectErrors ==
    "check_for_service_redirect" \in done =>
      /\ \A s \in ServicePool :
           LET r == remote[s]
               n == Cardinality({ p \in ServicePlaces : ServiceAt(p) = s })
               endpoint == /\ r.ok
                           /\ r.status_code \notin 400..599
                           /\ r.url \in {s, s \o "/"}
               unexpected == /\ ~r.ok
                             /\ ~Benign(r.exc, "Max retries exceeded with url: /")
           IN  /\ Count(error_list, LAMBDA e : e = <<"service_endpoint", s>>)
                    = IF endpoint THEN n ELSE 0
               /\ Count(error_list,
                        LAMBDA e : e = <<"unexpected_service", s, r.exc>>)
                    = IF unexpected THEN n ELSE 0
               /\ Count(error_list, LAMBDA e :
                        /\ e[1] \in {"service_endpoint", "unexpected_service"}
                        /\ e[2] = s)
                    = IF endpoint \/ unexpected THEN n ELSE 0
      /\ \A i \in 1..Len(error_list) :
           error_list[i][1] \in {"already_primary", "service_endpoint",
                                 "unexpected_service"}

\* C10's case: in one run a service site answered 200 at its URL plus '/',
\* and another answered 400 at its own URL: one error, for the first.
C10_Witness ==
    /\ "check_for_service_redirect" \in done
    /\ remote["https://s.com"] = HttpOk(200, "https://s.com/")
    /\ remote["https://t.com"] = HttpOk(400, "https://t.com")
    /\ Range(ServiceSites(check_sets)) = ServicePool
    /\ error_list = << <<"service_endpoint", "https://s.com">> >>

-----------------------------------------------------------------------------
(* SpecRun: every operation, each once, in any order *)

RunAssociated ==
    <<"https://c.com", "https://d.com", "https://e.com", "https://f.com",
      "https://g.com", "https://h.com">>

RunAliases == << <<"https://a.com", <<"https://a.de">> >> >>

\* A set with an alias and a service site and nothing wrong in it.
RunService ==
    [primary         |-> "https://a.com",
     ccTLDs          |-> Some(RunAliases),
     associatedSites |-> None,
     serviceSites    |-> Some(<<"https://s.com">>),
     rationaleBySite |-> Some({"https://s.com"})]

\* A set with more associated sites than the limit and no rationale for any.
RunMany ==
    [primary         |-> "https://b.com",
     ccTLDs          |-> None,
     associatedSites |-> Some(RunAssociated),
     serviceSites    |-> None,
     rationaleBySite |-> Some({})]

\* A set whose primary is neither https nor an eTLD+1.
RunScheme ==
    [primary         |-> "http://x.b.com",
     ccTLDs          |-> None,
     associatedSites |-> None,
     serviceSites    |-> None,
     rationaleBySite |-> Some({})]

\* A set with an alias that is also an associated site, has another first
\* label than the site it is an alias of and ends in no country code, and
\* with no rationaleBySite.
RunAlias ==
    [primary         |-> "https://k.com",
     ccTLDs          |-> Some(<< <<"https://k.com", <<"https://c.com">> >> >>),
     associatedSites |-> Some(<<"https://c.com">>),
     serviceSites    |-> None,
     rationaleBySite |-> None]

\* The submissions of the runs.  The orders in which the operations that
\* append or fetch can run multiply, so each submission leaves most of them
\* nothing to append.
RunDocs ==
    { <<>>, <<RunService>>, <<RunMany, RunMany>>, <<RunAlias>>,
      <<RunMany, RunScheme>> }

\* The set removed from the list since its previous version.
RunRemoved == RwsSet(None, "https://r.com", None, None)

\* The sites whose manifest find_invalid_well_known may fetch.
RunSites ==
    {"https://a.com", "https://a.de", "https://s.com", "https://b.com",
     "http://x.b.com", "https://k.com"} \cup Range(RunAssociated)

\* Remote sites that answer as the first record needs, the removed set gone.
RemoteUp ==
    [url \in { site \o WELL_KNOWN : site \in RunSites } |->
        JsonOk(Manifest(Some("https://a.com"), Some(RunAliases), None,
                        Some(<<"https://s.com">>)))]
    @@ ("https://r.com" \o WELL_KNOWN
          :> HttpOk(404, "https://r.com" \o WELL_KNOWN))
    @@ ("https://s.com/ads.txt" :> HttpOk(404, "https://s.com/ads.txt"))
    @@ ("https://s.com" :> HttpOk(200, "https://a.com/"))
    @@ (NoRedirects("https://s.com") :> HeadersOk(Some("noindex")))

\* Remote sites every check finds fault with.
RemoteDown ==
    [url \in { site \o WELL_KNOWN : site \in RunSites } |->
        JsonFail("HTTP Error 404: Not Found")]
    @@ ("https://r.com" \o WELL_KNOWN
          :> HttpOk(200, "https://r.com" \o WELL_KNOWN))
    @@ ("https://s.com/ads.txt" :> HttpOk(200, "https://s.com/ads.txt"))
    @@ ("https://s.com" :> HttpFail(OtherText))
    @@ (NoRedirects("https://s.com") :> HeadersOk(Some("all")))

InitRun ==
    /\ Start(RunDocs, {{"de"}})
    /\ subtracted_sets \in {<<>>, <<RunRemoved>>}
    /\ remote \in {RemoteUp, RemoteDown}
    /\ wk_args = <<>>

NextRun ==
    \/ LoadSets
    \/ HasAllRationales
    \/ CheckExclusivity
    \/ CheckAssociatedCount
    \/ FindNonHttpsUrls
    \/ FindInvalidETLDPlus1
    \/ FindInvalidAliasESLDs
    \/ FindInvalidWellKnown
    \/ FindInvalidRemoval
    \/ FindRobotsTag
    \/ FindAdsTxt
    \/ CheckForServiceRedirect

SpecRun == InitRun /\ [][NextRun]_vars

\* Two diagnostics are the same string: the same format with the same values.
SameDiagnostic(e, f) == e[1] = f[1] /\ e = f

\* s is a prefix of t, for two lists of diagnostics.
IsPrefix(s, t) ==
    /\ Len(s) <= Len(t)
    /\ \A i \in 1..Len(s) : SameDiagnostic(s[i], t[i])

\* C13: error_list and warning_texts start empty, and every operation leaves
\* what each list held as a prefix of what it holds after it, and leaves the
\* raw records, the dict load_sets built, the removed sets and the country
\* codes as they were.
C13_DiagnosticsAppendOnly ==
    /\ error_list = <<>> /\ warning_texts = <<>>
    /\ [][/\ IsPrefix(error_list, error_list')
          /\ IsPrefix(warning_texts, warning_texts')
          /\ rws_sites' = rws_sites
          /\ subtracted_sets' = subtracted_sets
          /\ icanns' = icanns
          /\ "load_sets" \in done => check_sets' = check_sets]_vars

\* Errors of load_sets, has_all_rationales and find_invalid_well_known, one
\* after the other in error_list, and a warning: three operations have
\* appended to what the ones before left.
C13_Witness ==
    /\ warning_texts # <<>>
    /\ \E i, j, k \in 1..Len(error_list) :
          /\ i < j /\ j < k
          /\ error_list[i][1] = "already_primary"
          /\ error_list[j][1] = "no_rationale"
          /\ error_list[k][1] = "access_error"

\* The operations in the order of their definitions in RwsCheck.
RunOperations ==
    <<"load_sets", "has_all_rationales", "check_exclusivity",
      "check_associated_count", "find_non_https_urls",
      "find_invalid_eTLD_Plus1", "find_invalid_well_known",
      "find_invalid_removal", "find_invalid_alias_eSLDs", "find_robots_tag",
      "find_ads_txt", "check_for_service_redirect">>

\* What an operation appends to error_list, computed from the raw records,
\* check_sets, the removed sets and the remote sites alone.
ErrorsOf(op) ==
    CASE op = "load_sets" -> load_sets(rws_sites).errors
      [] op = "has_all_rationales" -> has_all_rationales(rws_sites, check_sets)
      [] op = "check_exclusivity" -> check_exclusivity(check_sets)
      [] op = "check_associated_count" -> <<>>
      [] op = "find_non_https_urls" -> find_non_https_urls(check_sets)
      [] op = "find_invalid_eTLD_Plus1" -> find_invalid_eTLD_Plus1(check_sets)
      [] op = "find_invalid_well_known" ->
             find_invalid_well_known(check_sets).errors
      [] op = "find_invalid_removal" ->
             find_invalid_removal(subtracted_sets).errors
      [] op = "find_invalid_alias_eSLDs" -> find_invalid_alias_eSLDs(check_sets)
      [] op = "find_robots_tag" -> find_robots_tag(check_sets).errors
      [] op = "find_ads_txt" -> find_ads_txt(check_sets).errors
      [] op = "check_for_service_redirect" ->
             check_for_service_redirect(check_sets).errors

\* What an operation appends to warning_texts.
WarningsOf(op) ==
    IF op = "check_associated_count" THEN check_associated_count(check_sets)
    ELSE <<>>

\* The errors and the warnings of the operations ops, run in the order of
\* RunOperations.
ErrorsInOrder(ops) ==
    Concat([i \in 1..Len(RunOperations) |->
              IF RunOperations[i] \in ops THEN ErrorsOf(RunOperations[i])
              ELSE <<>>])

WarningsInOrder(ops) ==
    Concat([i \in 1..Len(RunOperations) |->
              IF RunOperations[i] \in ops THEN WarningsOf(RunOperations[i])
              ELSE <<>>])

\* Two lists of diagnostics hold the same strings the same number of times.
SameMultiset(s, t) ==
    /\ Len(s) = Len(t)
    /\ \A i \in 1..Len(s) :
          Len(SelectSeq(s, LAMBDA e : SameDiagnostic(e, s[i])))
            = Len(SelectSeq(t, LAMBDA e : SameDiagnostic(e, s[i])))

\* C12: in whatever order the operations have run, error_list and
\* warning_texts hold, as multisets, what these operations append when they
\* run in the order of RunOperations: the order changes the order of the
\* diagnostics and nothing else, and decides the output of no operation.
C12_OrderOnlyReorders ==
    /\ SameMultiset(error_list, ErrorsInOrder(done))
    /\ SameMultiset(warning_texts, WarningsInOrder(done))

\* Every operation has run, in an order that left the errors in another
\* order than that of RunOperations, with errors of two validators and a
\* warning among the diagnostics.
C12_Witness ==
    /\ done = Range(RunOperations)
    /\ warning_texts # <<>>
    /\ \E i \in 1..Len(error_list) :
          ~SameDiagnostic(error_list[i], ErrorsInOrder(done)[i])
    /\ \E i, j \in 1..Len(error_list) :
          /\ error_list[i][1] = "not_etld_plus1"
          /\ error_list[j][1] = "no_rationale"
          /\ i < j

-----------------------------------------------------------------------------
(* SpecValid: the structural validators and the manifest check on           *)
(* submissions that are valid or nearly so                                   *)

ValidAssociated ==
    <<"https://e.com", "https://f.com", "https://g.com", "https://h.com",
      "https://i.com", "https://j.com">>

\* Five records: a set of a primary alone with no rationaleBySite; a set
\* with an alias and one site of each kind, all with a rationale; the same
\* primary as the first with an associated site of the second and no
\* rationale for it; a set of a primary alone with an empty rationaleBySite;
\* a set with more associated sites than the limit.
ValidRecords ==
    { [primary         |-> "https://a.com",
       ccTLDs          |-> None,
       associatedSites |-> None,
       serviceSites    |-> None,
       rationaleBySite |-> None],
      [primary         |-> "https://b.com",
       ccTLDs          |-> Some(<< <<"https://b.com", <<"https://b.de">> >> >>),
       associatedSites |-> Some(<<"https://c.com">>),
       serviceSites    |-> Some(<<"https://s.com">>),
       rationaleBySite |-> Some({"https://c.com", "https://s.com"})],
      [primary         |-> "https://a.com",
       ccTLDs          |-> None,
       associatedSites |-> Some(<<"https://c.com">>),
       serviceSites    |-> None,
       rationaleBySite |-> Some({})],
      [primary         |-> "https://d.com",
       ccTLDs          |-> None,
       associatedSites |-> None,
       serviceSites    |-> None,
       rationaleBySite |-> Some({})],
      [primary         |-> "https://k.com",
       ccTLDs          |-> None,
       associatedSites |-> Some(ValidAssociated),
       serviceSites    |-> None,
       rationaleBySite |-> Some(Range(ValidAssociated))] }

\* The domains of a raw record other than its primary: its associated
\* sites, its service sites and its aliases.
RecordMembers(rwset) ==
    GetOr(rwset.associatedSites, <<>>) \o GetOr(rwset.serviceSites, <<>>)
    \o Concat([i \in 1..Len(GetOr(rwset.ccTLDs, <<>>)) |->
                 GetOr(rwset.ccTLDs, <<>>)[i][2]])

\* All domains of a raw record, the primary first.
RecordDomains(rwset) == <<rwset.primary>> \o RecordMembers(rwset)

ValidSites == UNION { Range(RecordDomains(rwset)) : rwset \in ValidRecords }

\* Remote sites that serve the submission doc: the manifest of each domain
\* of a record is that record, for the first record that has the domain.
MirrorOf(doc) ==
    [url \in { site \o WELL_KNOWN : site \in ValidSites } |->
        LET has == { k \in 1..Len(doc) :
                       \E site \in Range(RecordDomains(doc[k])) :
                           url = site \o WELL_KNOWN }
            k   == CHOOSE k \in has : \A m \in has : k <= m
        IN  IF has = {} THEN JsonFail("HTTP Error 404: Not Found")
            ELSE JsonOk(Manifest(Some(doc[k].primary), doc[k].ccTLDs,
                                 doc[k].associatedSites, doc[k].serviceSites))]

\* Remote sites that all serve the manifest of a set of https://a.com alone.
RemoteStale ==
    [url \in { site \o WELL_KNOWN : site \in ValidSites } |->
        JsonOk(Manifest(Some("https://a.com"), None, None, None))]

InitValid ==
    /\ Start(Docs(ValidRecords), {{"de"}})
    /\ subtracted_sets = <<>>
    /\ remote \in {MirrorOf(rws_sites), RemoteStale}
    /\ wk_args = <<>>

NextValid ==
    \/ LoadSets
    \/ HasAllRationales
    \/ CheckExclusivity
    \/ CheckAssociatedCount
    \/ FindNonHttpsUrls
    \/ FindInvalidETLDPlus1
    \/ FindInvalidAliasESLDs
    \/ FindInvalidWellKnown

SpecValid == InitValid /\ [][NextValid]_vars

ValidOperations ==
    {"load_sets", "has_all_rationales", "check_exclusivity",
     "check_associated_count", "find_non_https_urls",
     "find_invalid_eTLD_Plus1", "find_invalid_alias_eSLDs",
     "find_invalid_well_known"}

\* The places of the domains of the submission: <<k, i>> is the i-th domain
\* of the k-th record.
DomainPlaces ==
    UNION { { <<k, i>> : i \in 1..Len(RecordDomains(rws_sites[k])) } :
            k \in 1..Len(rws_sites) }

\* No domain is at two places of the submission: no two sets share a domain
\* and no set lists one twice.
SharesNoDomains ==
    \A p, q \in DomainPlaces :
        p # q => RecordDomains(rws_sites[p[1]])[p[2]]
                   # RecordDomains(rws_sites[q[1]])[q[2]]

\* Every domain is https-prefixed and an eTLD+1.
DomainsWellFormed ==
    \A k \in 1..Len(rws_sites) :
        \A site \in Range(RecordDomains(rws_sites[k])) :
            url_is_https(site) /\ is_eTLD_Plus1(site)

\* Every associated and service site has a rationale.
RationalesComplete ==
    \A k \in 1..Len(rws_sites) :
        \A site \in Range(GetOr(rws_sites[k].associatedSites, <<>>)
                          \o GetOr(rws_sites[k].serviceSites, <<>>)) :
            /\ rws_sites[k].rationaleBySite # None
            /\ site \in rws_sites[k].rationaleBySite[1]

WithinAssociatedLimit ==
    \A k \in 1..Len(rws_sites) :
        Len(GetOr(rws_sites[k].associatedSites, <<>>)) <= ASSOCIATED_LIMIT

\* Every aliased site is a site of its set, and every alias has its first
\* label and ends in a country code, or in com when the aliased site ends in
\* a country code.
AliasesLegitimate ==
    \A k \in 1..Len(rws_sites) :
        \A i \in 1..Len(GetOr(rws_sites[k].ccTLDs, <<>>)) :
            LET aliased == rws_sites[k].ccTLDs[1][i][1]
                aliases == rws_sites[k].ccTLDs[1][i][2]
            IN  /\ aliased \in { rws_sites[k].primary }
                       \cup Range(GetOr(rws_sites[k].associatedSites, <<>>))
                       \cup Range(GetOr(rws_sites[k].serviceSites, <<>>))
                /\ \A j \in 1..Len(aliases) :
                      /\ FirstLabel(aliases[j]) = FirstLabel(aliased)
                      /\ \/ LastLabel(aliases[j]) \in icanns
                         \/ /\ LastLabel(aliases[j]) = "com"
                            /\ LastLabel(aliased) \in icanns

\* The manifest fetched from each primary has the primary and the lists of
\* its record, and the manifest fetched from each member names the primary.
ManifestsMatch ==
    \A k \in 1..Len(rws_sites) :
        LET rwset == rws_sites[k]
            own   == remote[rwset.primary \o WELL_KNOWN]
        IN  /\ own.ok
            /\ own.json.primary = Some(rwset.primary)
            /\ GetOr(own.json.associatedSites, <<>>)
                 = GetOr(rwset.associatedSites, <<>>)
            /\ GetOr(own.json.serviceSites, <<>>)
                 = GetOr(rwset.serviceSites, <<>>)
            /\ GetOr(own.json.ccTLDs, <<>>) = GetOr(rwset.ccTLDs, <<>>)
            /\ \A site \in Range(RecordMembers(rwset)) :
                  /\ remote[site \o WELL_KNOWN].ok
                  /\ remote[site \o WELL_KNOWN].json.primary
                       = Some(rwset.primary)

ValidSubmission ==
    /\ SharesNoDomains
    /\ DomainsWellFormed
    /\ RationalesComplete
    /\ WithinAssociatedLimit
    /\ AliasesLegitimate
    /\ ManifestsMatch

\* C11: when the eight operations have run on a valid submission (no domain
\* twice, every domain https-prefixed and an eTLD+1, a rationale for every
\* associated and service site, at most ASSOCIATED_LIMIT associated sites a
\* set, legitimate aliases, manifests that match), error_list and
\* warning_texts are both empty.
C11_ValidYieldsNoDiagnostics ==
    (ValidSubmission /\ done = ValidOperations)
      => (error_list = <<>> /\ warning_texts = <<>>)

\* The same, for valid submissions in which every record has a
\* rationaleBySite, be it empty.
ValidWithRationalesYieldsNoDiagnostics ==
    (/\ ValidSubmission
     /\ \A k \in 1..Len(rws_sites) : rws_sites[k].rationaleBySite # None
     /\ done = ValidOperations)
      => (error_list = <<>> /\ warning_texts = <<>>)

\* A valid submission of two sets, each record with a rationaleBySite, after
\* the eight operations.
ValidWithRationalesWitness ==
    /\ ValidSubmission
    /\ Len(rws_sites) = 2
    /\ \A k \in 1..Len(rws_sites) : rws_sites[k].rationaleBySite # None
    /\ \E k \in 1..Len(rws_sites) : rws_sites[k].ccTLDs # None
    /\ done = ValidOperations

====
